---------------------------- MODULE Spec2Model ----------------------------
(***************************************************************************)
(* A model of ctree (src/src/ctree.js): the option merger, the two         *)
(* substitution passes over the tree template, the randomly coloured       *)
(* lights and the three category colour passes.                            *)
(*                                                                         *)
(* Text is a sequence of one-character strings.  The escape character      *)
(* U+001B is the element ESC.  A JavaScript value is a record              *)
(* [kind, str, entries]: kind is the value's kind, str the characters of a *)
(* string (or of String(v) for a primitive), entries the own enumerable    *)
(* properties of an object or array, in insertion order.                   *)
(***************************************************************************)
EXTENDS Integers, Sequences, FiniteSets

(***************************************************************************)
(* Bounds of the model.                                                    *)
(***************************************************************************)
\* Math.random() is modelled as a sequence of draws of period MaxDraws:
\* the k-th call returns draw ((k - 1) % MaxDraws) + 1 of the sequence.
MaxDraws == 2

(***************************************************************************)
(* Text.                                                                   *)
(***************************************************************************)
ESC == "ESC"

DigitChars == <<"0", "1", "2", "3", "4", "5", "6", "7", "8", "9">>

\* The regular expression class \d.
IsDigit(c) == c \in {"0", "1", "2", "3", "4", "5", "6", "7", "8", "9"}

\* String(n) for a non-negative integer n.
RECURSIVE NumberToString(_)
NumberToString(n) ==
    IF n < 10 THEN <<DigitChars[n + 1]>>
    ELSE NumberToString(n \div 10) \o <<DigitChars[(n % 10) + 1]>>

\* tok occurs in s at index i.
IsAt(s, tok, i) ==
    /\ i >= 1
    /\ i + Len(tok) - 1 <= Len(s)
    /\ \A k \in 1..Len(tok) : s[i + k - 1] = tok[k]

\* The indices at which tok, which is not empty, occurs in s.
Occurrences(s, tok) ==
    LET first == tok[1]
    IN  {i \in 1..(Len(s) - Len(tok) + 1) : s[i] = first /\ IsAt(s, tok, i)}

Contains(s, tok) == Occurrences(s, tok) # {}

Count(s, tok) == Cardinality(Occurrences(s, tok))

SetMin(S) == CHOOSE x \in S : \A y \in S : x <= y

\* The occurrences a scan from the left takes, from index from on: an
\* occurrence that overlaps the one taken before it is passed over.
RECURSIVE Leftmost(_, _, _)
Leftmost(occ, width, from) ==
    LET later == {i \in occ : i >= from}
    IN  IF later = {} THEN {}
        ELSE LET i == SetMin(later)
             IN  {i} \cup Leftmost(occ, width, i + width)

\* The separators split finds in s: the occurrences of tok, from the left,
\* without overlap.
Separators(s, tok) ==
    LET occ == Occurrences(s, tok)
    IN  IF \A i \in occ : \A d \in 1..(Len(tok) - 1) : i + d \notin occ
        THEN occ
        ELSE Leftmost(occ, Len(tok), 1)

\* s[lo..hi] with rep in place of each separator in it (seps: the starts of
\* the separators, width: their length).  The text is cut at the middle
\* separator, which keeps the nesting of the evaluation shallow.
RECURSIVE JoinBetween(_, _, _, _, _, _)
JoinBetween(s, seps, width, rep, lo, hi) ==
    LET inside == {i \in seps : lo <= i /\ i <= hi}
    IN  IF inside = {} THEN SubSeq(s, lo, hi)
        ELSE LET half == Cardinality(inside) \div 2
                 mid == CHOOSE i \in inside :
                            Cardinality({j \in inside : j < i}) = half
             IN  JoinBetween(s, seps, width, rep, lo, mid - 1) \o rep
                    \o JoinBetween(s, seps, width, rep, mid + width, hi)

\* s.split(tok).join(rep), for a separator tok that is not empty.
SplitJoin(s, tok, rep) ==
    IF s = <<>> THEN <<>>
    ELSE JoinBetween(s, Separators(s, tok), Len(tok), rep, 1, Len(s))

(***************************************************************************)
(* JavaScript values.                                                      *)
(***************************************************************************)
Str(chars) == [kind |-> "string", str |-> chars, entries |-> <<>>]
Num(chars) == [kind |-> "number", str |-> chars, entries |-> <<>>]
Bool(chars) == [kind |-> "boolean", str |-> chars, entries |-> <<>>]
Null == [kind |-> "null", str |-> <<"n", "u", "l", "l">>, entries |-> <<>>]
Obj(es) == [kind |-> "object", str |-> <<>>, entries |-> es]
Arr(es) == [kind |-> "array", str |-> <<>>, entries |-> es]
Undefined == [kind |-> "undefined", str |-> <<>>, entries |-> <<>>]

\* One property of an object.
P(k, v) == [key |-> k, value |-> v]

\* typeof v
TypeOf(v) ==
    CASE v.kind = "string" -> "string"
      [] v.kind = "number" -> "number"
      [] v.kind = "boolean" -> "boolean"
      [] v.kind = "undefined" -> "undefined"
      [] OTHER -> "object"

IsArray(v) == v.kind = "array"

HasKey(obj, k) == \E i \in 1..Len(obj.entries) : obj.entries[i].key = k

\* obj[k]
Get(obj, k) ==
    IF HasKey(obj, k)
    THEN obj.entries[CHOOSE i \in 1..Len(obj.entries) : obj.entries[i].key = k].value
    ELSE Undefined

\* String(v), as join and a template literal convert a primitive.
ToString(v) == v.str

\* Object.entries(v) / for (k in v) over a value that passed validation: the
\* properties of an object, the indexed characters of a string.
ObjectEntries(v) ==
    IF v.kind = "string"
    THEN [i \in 1..Len(v.str) |-> P(NumberToString(i - 1), Str(<<v.str[i]>>))]
    ELSE v.entries

ObjectValues(v) == [i \in 1..Len(ObjectEntries(v)) |-> ObjectEntries(v)[i].value]

\* Object.entries(null) and Object.values(null) throw a TypeError.
NotObjectCoercible(v) == v.kind \in {"null", "undefined"}

(***************************************************************************)
(* Option names and template tokens.                                       *)
(***************************************************************************)
kStar == <<"s", "t", "a", "r">>
kBalls == <<"b", "a", "l", "l", "s">>
kStars == <<"s", "t", "a", "r", "s">>
kTOP == <<"T", "O", "P">>
kTREE_STAR == <<"T", "R", "E", "E", "_", "S", "T", "A", "R">>
kANGEL == <<"A", "N", "G", "E", "L">>
kLEFT == <<"L", "E", "F", "T">>
kRIGHT == <<"R", "I", "G", "H", "T">>
kBOTTOM == <<"B", "O", "T", "T", "O", "M">>
kBALL == <<"B", "A", "L", "L">>
kSTAR == <<"S", "T", "A", "R">>

(***************************************************************************)
(* mergeOptions.                                                           *)
(***************************************************************************)
\* defaultStar with the star body under the key of the template's token.
defaultStarAngel ==
    Obj(<<P(kTOP, Str(<<"|">>)), P(kANGEL, Str(<<"+">>)),
          P(kLEFT, Str(<<"-">>)), P(kRIGHT, Str(<<"-">>)),
          P(kBOTTOM, Str(<<"A">>))>>)

defaultStar ==
    Obj(<<P(kTOP, Str(<<"|">>)), P(kTREE_STAR, Str(<<"+">>)),
          P(kLEFT, Str(<<"-">>)), P(kRIGHT, Str(<<"-">>)),
          P(kBOTTOM, Str(<<"A">>))>>)

defaultOptions ==
    Obj(<<P(kStar, defaultStar), P(kBalls, Str(<<"O">>)),
          P(kStars, Str(<<"*">>))>>)

\* obj with property k set to v: an own key keeps its place, a new key is
\* added last.
Put(es, k, v) ==
    IF \E i \in 1..Len(es) : es[i].key = k
    THEN [i \in 1..Len(es) |-> IF es[i].key = k THEN P(k, v) ELSE es[i]]
    ELSE Append(es, P(k, v))

RECURSIVE PutAll(_, _, _)
PutAll(es, more, i) ==
    IF i > Len(more) THEN es
    ELSE PutAll(Put(es, more[i].key, more[i].value), more, i + 1)

\* A merge that descends into the nested mappings: a nested mapping of b
\* is merged over the one a has under the same key.
SpreadMergeDeep(a, b) ==
    LET deep(e) ==
            IF e.value.kind = "object" /\ Get(a, e.key).kind = "object"
            THEN P(e.key, Obj(PutAll(Get(a, e.key).entries,
                                     e.value.entries, 1)))
            ELSE e
    IN  Obj(PutAll(a.entries,
                   [i \in 1..Len(b.entries) |-> deep(b.entries[i])], 1))

\* { ...a, ...b }
SpreadMerge(a, b) == Obj(PutAll(a.entries, b.entries, 1))

NoError == [name |-> "none", path |-> <<>>, got |-> "none"]

\* new Error(`Invalid value for ${path}: expected a string but got ${got}`)
InvalidValue(path, got) == [name |-> "Error", path |-> path, got |-> got]

\* The error the validation loop throws at the top-level property e, or
\* NoError.  for (subKey in null) runs no iteration.
CheckEntry(e) ==
    IF TypeOf(e.value) = "object" /\ ~IsArray(e.value)
    THEN LET subs == e.value.entries
             bad == {j \in 1..Len(subs) : TypeOf(subs[j].value) # "string"}
         IN  IF bad = {} THEN NoError
             ELSE LET j == SetMin(bad)
                  IN  InvalidValue(e.key \o <<".">> \o subs[j].key,
                                   TypeOf(subs[j].value))
    ELSE IF TypeOf(e.value) # "string"
         THEN InvalidValue(e.key, TypeOf(e.value))
         ELSE NoError

\* mergeOptions(newOptions): the merged options, or the first error thrown.
mergeOptions(newOptions) ==
    LET mergedOptions == SpreadMerge(defaultOptions, newOptions)
        es == mergedOptions.entries
        bad == {i \in 1..Len(es) : CheckEntry(es[i]) # NoError}
    IN  IF bad = {} THEN [error |-> NoError, value |-> mergedOptions]
        ELSE [error |-> CheckEntry(es[SetMin(bad)]), value |-> Undefined]

(***************************************************************************)
(* Color.                                                                  *)
(***************************************************************************)
Color(r, g, b) == [r |-> r, g |-> g, b |-> b]

toAnsi(c) ==
    <<ESC, "[", "3", "8", ";", "2", ";">> \o NumberToString(c.r) \o <<";">>
        \o NumberToString(c.g) \o <<";">> \o NumberToString(c.b) \o <<"m">>

reset == <<ESC, "[", "0", "m">>

\* char is a JavaScript value, converted by the template literal.
format(c, char) == toAnsi(c) \o ToString(char) \o reset

yellow == Color(255, 255, 0)
green == Color(0, 255, 0)
brown == Color(210, 105, 30)

(***************************************************************************)
(* The template.                                                           *)
(***************************************************************************)
Template ==
    <<"\n">>
 \o <<" ", " ", " ", " ", " ", " ", " ", " ", " ", "y", "T", "O", "P", "\n">>
 \o <<" ", " ", " ", " ", " ", " ", " ", " ", "y", "L", "E", "F", "T", "y", "A", "N", "G", "E", "L", "y", "R", "I", "G", "H", "T", "\n">>
 \o <<" ", " ", " ", " ", " ", " ", " ", " ", " ", "y", "A", "\n">>
 \o <<" ", " ", " ", " ", " ", " ", " ", " ", "g", "/", "g", "=", "g", "\\", " ", " ", " ", " ", " ", " ", " ", " ", " ", " ", " ", " ", " ", " ", " ", "/", "\\", " ", " ", "/", "\\", " ", " ", " ", " ", "_", "_", "_", " ", " ", "_", " ", "_", "_", " ", " ", "_", " ", "_", "_", " ", "_", "_", " ", " ", " ", " ", "_", "_", "\n">>
 \o <<" ", " ", " ", " ", " ", " ", "1", "0", "g", "/", " ", "y", "S", "T", "A", "R", " ", "g", "\\", "2", "0", " ", " ", " ", " ", " ", " ", " ", " ", " ", " ", " ", " ", "/", " ", " ", "\\", "/", " ", " ", "\\", " ", " ", "/", " ", "_", " ", "\\", "|", " ", "'", "_", "_", "|", "|", " ", "'", "_", "_", "|", "\\", " ", "\\", " ", " ", "/", " ", "/", "\n">>
 \o <<" ", " ", " ", " ", " ", " ", "g", "/", "g", "=", "g", "=", "g", "=", "g", "=", "g", "=", "g", "\\", " ", " ", " ", " ", " ", " ", " ", " ", " ", " ", " ", "/", " ", "/", "\\", " ", " ", "/", "\\", " ", "\\", "|", " ", " ", "_", "_", "/", "|", " ", "|", " ", " ", " ", "|", " ", "|", " ", " ", " ", " ", "\\", " ", "\\", "/", " ", "/", "\n">>
 \o <<" ", " ", " ", " ", " ", " ", "g", "/", " ", " ", "3", "B", "A", "L", "L", " ", " ", "g", "\\", " ", " ", " ", " ", " ", " ", " ", " ", " ", " ", "\\", "_", "\\", " ", "\\", "/", " ", "/", "_", "/", " ", "\\", "_", "_", "_", "/", "|", "_", "|", " ", " ", " ", "|", "_", "|", " ", " ", " ", " ", " ", "\\", " ", " ", "/", "\n">>
 \o <<" ", " ", " ", " ", "4", "0", "g", "/", " ", "5", "0", " ", "y", "S", "T", "A", "R", " ", "6", "0", " ", "g", "\\", "7", "0", " ", " ", " ", " ", " ", " ", " ", " ", " ", " ", " ", " ", " ", " ", " ", " ", " ", " ", " ", " ", " ", " ", " ", " ", " ", " ", " ", " ", " ", " ", " ", " ", " ", " ", " ", " ", " ", " ", " ", "/", " ", "/", "\n">>
 \o <<" ", " ", " ", " ", "g", "/", "g", "=", "g", "=", "g", "=", "g", "=", "g", "=", "g", "=", "g", "=", "g", "=", "g", "=", "g", "\\", " ", " ", " ", " ", " ", " ", " ", " ", "_", "_", " ", " ", "_", "_", " ", " ", " ", " ", " ", " ", " ", " ", " ", " ", " ", " ", " ", " ", " ", " ", " ", " ", " ", " ", " ", " ", " ", " ", "/", "_", "/", " ", " ", " ", " ", "_", "\n">>
 \o <<" ", " ", " ", " ", "g", "/", " ", " ", "y", "S", "T", "A", "R", " ", " ", " ", "y", "S", "T", "A", "R", " ", " ", "g", "\\", " ", " ", " ", " ", " ", " ", " ", " ", "\\", " ", "\\", "/", " ", "/", " ", " ", " ", " ", " ", " ", " ", " ", "/", "\\", " ", " ", "/", "\\", " ", " ", " ", " ", "_", "_", "_", "_", " ", " ", "_", "_", "_", "_", " ", " ", "|", " ", "|", "\n">>
 \o <<" ", " ", "8", "0", "g", "/", " ", "y", "S", "T", "A", "R", " ", " ", " ", "9", "0", " ", " ", " ", "y", "S", "T", "A", "R", " ", "g", "\\", "1", "0", "0", " ", " ", " ", " ", " ", " ", " ", "\\", " ", " ", "/", " ", " ", " ", "_", "_", " ", " ", " ", "/", " ", " ", "\\", "/", " ", " ", "\\", " ", " ", "/", " ", "_", " ", " ", "|", "/", " ", "_", "_", "_", "\\", " ", "|", "_", "|", "\n">>
 \o <<" ", " ", "g", "/", "g", "=", "g", "=", "g", "=", "g", "=", "g", "=", "g", "=", "g", "=", "g", "=", "g", "=", "g", "=", "g", "=", "g", "=", "g", "=", "g", "\\", " ", " ", " ", " ", " ", " ", " ", "/", " ", " ", "\\", " ", " ", "|", "_", "_", "|", " ", "/", " ", "/", "\\", " ", " ", "/", "\\", " ", "\\", "|", " ", "(", "_", "|", " ", "|", "\\", "_", "_", "_", " ", "\\", " ", " ", "_", "\n">>
 \o <<" ", " ", "g", "/", " ", " ", "1", "4", "0", " ", " ", " ", "y", "S", "T", "A", "R", " ", " ", " ", "1", "5", "0", " ", " ", "g", "\\", " ", " ", " ", " ", " ", " ", "/", "_", "/", "\\", "_", "\\", " ", " ", " ", " ", " ", " ", "\\", "_", "\\", " ", "\\", "/", " ", "/", "_", "/", " ", "\\", "_", "_", ",", "_", "|", "\\", "_", "_", "_", "_", "/", " ", "|", "_", "|", "\n">>
 \o <<"1", "6", "0", "g", "/", " ", "y", "S", "T", "A", "R", " ", " ", " ", "1", "7", "0", " ", " ", " ", "1", "8", "0", " ", " ", " ", "y", "S", "T", "A", "R", " ", "g", "\\", "1", "9", "0", "\n">>
 \o <<"g", "/", "g", "=", "g", "=", "g", "=", "g", "=", "g", "=", "g", "=", "g", "=", "g", "=", "g", "=", "g", "=", "g", "=", "g", "=", "g", "=", "g", "=", "g", "=", "g", "=", "g", "=", "g", "\\", "\n">>
 \o <<" ", " ", " ", " ", " ", " ", " ", "b", "|", " ", " ", " ", "b", "|", "\n">>
 \o <<" ", " ", " ", " ", " ", " ", " ", "b", "|", "b", "_", "b", "_", "b", "_", "b", "|", "\n">>

(***************************************************************************)
(* modifyTemplate.                                                         *)
(***************************************************************************)
\* The loop of modifyTemplate over the entries es, from entry i on.
RECURSIVE ModifyFrom(_, _, _)
ModifyFrom(modified, es, i) ==
    IF i > Len(es) THEN modified
    ELSE ModifyFrom(SplitJoin(modified, es[i].key, ToString(es[i].value)),
                    es, i + 1)

\* modifyTemplate(input, replacements), replacements an object or a string.
modifyTemplate(text, replacements) ==
    ModifyFrom(text, ObjectEntries(replacements), 1)

\* { BALL: options.balls, STAR: options.stars }
BallStarReplacements(opts) ==
    Obj(<<P(kBALL, Get(opts, kBalls)), P(kSTAR, Get(opts, kStars))>>)

(***************************************************************************)
(* getRandomInt, generateColor.                                            *)
(***************************************************************************)
\* A draw that can reach max itself.
getRandomIntInclusive(max) == 0..max

\* The values Math.floor(Math.random() * max) can take.
getRandomInt(max) == 0..(max - 1)

PaletteSize == 6

pink == Color(247, 108, 246)
lightBlue == Color(85, 202, 255)
purple == Color(100, 0, 255)
red == Color(236, 21, 0)
orange == Color(243, 213, 0)
lightGreen == Color(100, 255, 24)
white == Color(255, 255, 255)

\* The switch of generateColor.
SelectColor(selection) ==
    CASE selection = 0 -> pink
      [] selection = 1 -> lightBlue
      [] selection = 2 -> purple
      [] selection = 3 -> red
      [] selection = 4 -> orange
      [] selection = 5 -> lightGreen
      [] OTHER -> white

\* generateColor(input) when getRandomInt returned selection.
generateColor(glyph, selection) == format(SelectColor(selection), glyph)

\* The sequences of draws of Math.random() the model enumerates.
RandomDraws == [1..MaxDraws -> getRandomInt(PaletteSize)]

\* The value the k-th call of getRandomInt returns under draws.
Draw(draws, k) == draws[((k - 1) % MaxDraws) + 1]

(***************************************************************************)
(* applyColorsToLights.                                                    *)
(***************************************************************************)
\* The source of new RegExp(`(\\d+)${options.balls}?`, "g").
RegExpSource(balls) ==
    <<"(", "\\", "d", "+", ")">> \o ToString(balls) \o <<"?">>

\* The group nesting of pattern p from index i on is balanced, depth groups
\* being open.  A backslash escapes the next character.
RECURSIVE GroupsBalanced(_, _, _)
GroupsBalanced(p, i, depth) ==
    IF i > Len(p) THEN depth = 0
    ELSE IF p[i] = "\\" THEN GroupsBalanced(p, i + 2, depth)
    ELSE IF p[i] = "(" THEN GroupsBalanced(p, i + 1, depth + 1)
    ELSE IF p[i] = ")"
         THEN depth > 0 /\ GroupsBalanced(p, i + 1, depth - 1)
    ELSE GroupsBalanced(p, i + 1, depth)

\* new RegExp(source) throws a SyntaxError.  Of the syntax of patterns this
\* covers the groups: the glyphs enumerated hold no other metacharacter.
RegExpSyntaxError(source) == ~GroupsBalanced(source, 1, 0)

\* The starts of the maximal digit runs of s.
RunStarts(s) ==
    {i \in 1..Len(s) : IsDigit(s[i]) /\ (i = 1 \/ ~IsDigit(s[i - 1]))}

\* The last index of the digit run that starts at i.
RunEnd(s, i) ==
    SetMin({e \in i..Len(s) : e = Len(s) \/ ~IsDigit(s[e + 1])})

\* The match of (\d+)L1...Ln, the last literal not optional.
MatchEndRequired(s, lits, i) ==
    LET e == RunEnd(s, i)
    IN  IF IsAt(s, lits, e + 1) THEN e + Len(lits) ELSE 0

\* The match of (\d+), without the glyph.
MatchEndDigits(s, lits, i) == RunEnd(s, i)

\* The last index of the match of (\d+)L1...Ln? that starts at the digit
\* run at i, or 0 when there is none; lits = L1...Ln is a non-empty run of
\* literal characters that are not digits, so \d+ takes the whole run and
\* no shorter run can match.
MatchEnd(s, lits, i) ==
    LET e == RunEnd(s, i)
        n == Len(lits)
        must == SubSeq(lits, 1, n - 1)
        m == e + n - 1
    IN  IF ~IsAt(s, must, e + 1) /\ n > 1 THEN 0
        ELSE IF m + 1 <= Len(s) /\ s[m + 1] = lits[n] THEN m + 1
        ELSE m

\* The starts of the matches of the global regular expression in s.
LightMatches(s, lits) == {i \in RunStarts(s) : MatchEnd(s, lits, i) # 0}

\* input.replace(regex, (match) => generateColor(options.balls)) over
\* s[lo..hi]: the k-th match of s, counted from the left, is replaced by
\* the glyph in the colour of the k-th draw.  The text is cut at the middle
\* match, which keeps the nesting of the evaluation shallow.
RECURSIVE ReplaceLights(_, _, _, _, _, _)
ReplaceLights(s, balls, starts, draws, lo, hi) ==
    LET inside == {i \in starts : lo <= i /\ i <= hi}
    IN  IF inside = {} THEN SubSeq(s, lo, hi)
        ELSE LET half == Cardinality(inside) \div 2
                 mid == CHOOSE i \in inside :
                            Cardinality({j \in inside : j < i}) = half
                 k == Cardinality({j \in starts : j <= mid})
             IN  ReplaceLights(s, balls, starts, draws, lo, mid - 1)
                    \o generateColor(balls, Draw(draws, k))
                    \o ReplaceLights(s, balls, starts, draws,
                                     MatchEnd(s, ToString(balls), mid) + 1, hi)

applyColorsToLights(text, opts, draws) ==
    LET balls == Get(opts, kBalls)
    IN  ReplaceLights(text, balls, LightMatches(text, ToString(balls)),
                      draws, 1, Len(text))

(***************************************************************************)
(* applyColors.                                                            *)
(***************************************************************************)
\* The forEach of applyColorToChars over chars, from entry i on.
RECURSIVE ColorFrom(_, _, _, _, _)
ColorFrom(applied, color, charPrefix, chars, i) ==
    IF i > Len(chars) THEN applied
    ELSE ColorFrom(SplitJoin(applied, charPrefix \o ToString(chars[i]),
                             format(color, chars[i])),
                   color, charPrefix, chars, i + 1)

applyColorToChars(str, color, charPrefix, chars) ==
    ColorFrom(str, color, charPrefix, chars, 1)

\* [...Object.values(options.star), ...Object.values(options.stars)]
YellowChars(opts) ==
    ObjectValues(Get(opts, kStar)) \o ObjectValues(Get(opts, kStars))

GreenChars == <<Str(<<"/">>), Str(<<"\\">>), Str(<<"=">>)>>
BrownChars == <<Str(<<"|">>), Str(<<"_">>)>>

applyColors(base, opts) ==
    LET a1 == applyColorToChars(base, yellow, <<"y">>, YellowChars(opts))
        a2 == applyColorToChars(a1, green, <<"g">>, GreenChars)
    IN  applyColorToChars(a2, brown, <<"b">>, BrownChars)

(***************************************************************************)
(* The configurations ctree is called with.                                *)
(***************************************************************************)
StarOf(top, body, left, right, bottom) ==
    Obj(<<P(kTOP, top), P(body.key, body.value), P(kLEFT, left),
          P(kRIGHT, right), P(kBOTTOM, bottom)>>)

\* The star mapping of the call at the end of ctree.js.
exampleStar ==
    StarOf(Str(<<"^">>), P(kANGEL, Str(<<"+">>)), Str(<<"-">>), Str(<<"-">>),
           Str(<<"A">>))

\* The default star glyphs without the TREE_STAR key.
starNoBody ==
    Obj(<<P(kTOP, Str(<<"|">>)), P(kLEFT, Str(<<"-">>)),
          P(kRIGHT, Str(<<"-">>)), P(kBOTTOM, Str(<<"A">>))>>)

\* The default star glyphs, supplied by the caller.
explicitStar ==
    StarOf(Str(<<"|">>), P(kTREE_STAR, Str(<<"+">>)), Str(<<"-">>),
           Str(<<"-">>), Str(<<"A">>))

\* Glyphs different from the defaults.
otherStar ==
    StarOf(Str(<<"^">>), P(kTREE_STAR, Str(<<"#">>)), Str(<<"<">>),
           Str(<<">">>), Str(<<"V">>))

\* A star glyph that is the start of a colour escape sequence.
escapeStar == Obj(<<P(kTOP, Str(<<ESC, "[", "3", "8", ";", "2", ";", "2">>))>>)

Configurations ==
    << \* every leaf a string
       Obj(<<>>),
       Obj(<<P(kBalls, Str(<<"X">>))>>),
       Obj(<<P(kStars, Str(<<"+">>))>>),
       Obj(<<P(kStars, Str(<<"+">>)), P(kStar, starNoBody)>>),
       Obj(<<P(kStars, Str(<<"+">>)), P(kStar, explicitStar)>>),
       Obj(<<P(kBalls, Str(<<"X">>)), P(kStars, Str(<<"+">>))>>),
       Obj(<<P(kStar, exampleStar), P(kBalls, Str(<<"X">>)),
             P(kStars, Str(<<"+">>))>>),
       Obj(<<P(kStar, Obj(<<P(kTOP, Str(<<"^">>))>>))>>),
       Obj(<<P(kStar, Obj(<<>>))>>),
       Obj(<<P(kStar, otherStar)>>),
       Obj(<<P(kStar, otherStar), P(kBalls, Str(<<"X">>))>>),
       Obj(<<P(kStar, Str(<<"*">>))>>),
       Obj(<<P(kStars, Str(<<"a", "b">>))>>),
       Obj(<<P(kStars, Str(<<>>))>>),
       Obj(<<P(kStars, Str(<<"5">>))>>),
       Obj(<<P(kStars, Str(<<"-">>))>>),
       Obj(<<P(kBalls, Str(<<"X", "Y">>))>>),
       Obj(<<P(kBalls, Str(<<"(">>))>>),
       Obj(<<P(kBalls, Str(<<"X">>)), P(kStars, Str(<<"a", "b">>))>>),
       Obj(<<P(kStar, escapeStar), P(kStars, Str(<<"1">>))>>),
       \* a leaf that is not a string
       Obj(<<P(kBalls, Null)>>),
       Obj(<<P(kStars, Null)>>),
       Obj(<<P(kStar, Null)>>),
       Obj(<<P(kBalls, Num(<<"5">>))>>),
       Obj(<<P(kStars, Bool(<<"t", "r", "u", "e">>))>>),
       Obj(<<P(kBalls, Arr(<<P(<<"0">>, Str(<<"O">>))>>))>>),
       Obj(<<P(kStar, Arr(<<P(<<"0">>, Str(<<"*">>))>>))>>),
       Obj(<<P(kStar, Obj(<<P(kTOP, Num(<<"5">>))>>))>>),
       Obj(<<P(kStar, Obj(<<P(kTOP, Str(<<"^">>)), P(kLEFT, Null)>>))>>),
       Obj(<<P(kStar, Obj(<<P(kTOP, Arr(<<>>))>>))>>),
       Obj(<<P(kStar, Obj(<<P(kTOP, Obj(<<>>))>>))>>),
       Obj(<<P(kBalls, Str(<<"X">>)), P(kStars, Num(<<"3">>))>>) >>

(***************************************************************************)
(* One invocation of ctree.                                                *)
(***************************************************************************)
VARIABLES
    pc,         \* the statement of ctree that runs next
    arg,        \* the options the caller passed
    options,    \* options, once merged (line 69)
    input,      \* let input (line 158), as the substitution passes rewrite it
    lights,     \* applyColorsToLights(input) (line 256)
    result,     \* the text ctree returned
    error       \* the error ctree threw

vars == <<pc, arg, options, input, lights, result, error>>

TypeError == [name |-> "TypeError", path |-> <<>>, got |-> "none"]
SyntaxError == [name |-> "SyntaxError", path |-> <<>>, got |-> "none"]

Init ==
    /\ pc = "call"
    /\ arg = Undefined
    /\ options = Undefined
    /\ input = <<>>
    /\ lights = <<>>
    /\ result = <<>>
    /\ error = NoError

\* ctree(options)
Call ==
    /\ pc = "call"
    /\ \E i \in 1..Len(Configurations) : arg' = Configurations[i]
    /\ pc' = "mergeOptions"
    /\ UNCHANGED <<options, input, lights, result, error>>

\* throw e: the invocation ends and returns nothing.
Throw(e) ==
    /\ pc' = "thrown"
    /\ error' = e
    /\ UNCHANGED <<arg, options, input, lights, result>>

\* options = mergeOptions(options); let input = `...`
MergeOptions ==
    /\ pc = "mergeOptions"
    /\ LET merged == mergeOptions(arg)
       IN  IF merged.error # NoError THEN Throw(merged.error)
           ELSE /\ options' = merged.value
                /\ input' = Template
                /\ pc' = "modifyStar"
                /\ UNCHANGED <<arg, lights, result, error>>

\* input = modifyTemplate(input, options.star)
ModifyStar ==
    /\ pc = "modifyStar"
    /\ IF NotObjectCoercible(Get(options, kStar)) THEN Throw(TypeError)
       ELSE /\ input' = modifyTemplate(input, Get(options, kStar))
            /\ pc' = "modifyBallStar"
            /\ UNCHANGED <<arg, options, lights, result, error>>

\* input = modifyTemplate(input, { BALL: options.balls, STAR: options.stars })
ModifyBallStar ==
    /\ pc = "modifyBallStar"
    /\ input' = modifyTemplate(input, BallStarReplacements(options))
    /\ pc' = "applyColorsToLights"
    /\ UNCHANGED <<arg, options, lights, result, error>>

\* applyColorsToLights(input)
ApplyColorsToLights ==
    /\ pc = "applyColorsToLights"
    /\ IF RegExpSyntaxError(RegExpSource(Get(options, kBalls)))
       THEN Throw(SyntaxError)
       ELSE /\ \E draws \in RandomDraws :
                  lights' = applyColorsToLights(input, options, draws)
            /\ pc' = "applyColors"
            /\ UNCHANGED <<arg, options, input, result, error>>

\* const coloredOutput = applyColors(...); return coloredOutput
ApplyColors ==
    /\ pc = "applyColors"
    /\ IF \/ NotObjectCoercible(Get(options, kStar))
          \/ NotObjectCoercible(Get(options, kStars))
       THEN Throw(TypeError)
       ELSE /\ result' = applyColors(lights, options)
            /\ pc' = "returned"
            /\ UNCHANGED <<arg, options, input, lights, error>>

Next ==
    \/ Call
    \/ MergeOptions
    \/ ModifyStar
    \/ ModifyBallStar
    \/ ApplyColorsToLights
    \/ ApplyColors

Spec == Init /\ [][Next]_vars

(***************************************************************************)
(* Vocabulary of the properties.                                           *)
(***************************************************************************)
\* Every leaf of the configuration cfg is a string: a top-level value, or a
\* value one level inside a nested mapping.
AllLeavesText(cfg) ==
    \A i \in 1..Len(cfg.entries) :
        LET v == cfg.entries[i].value
        IN  IF v.kind = "object"
            THEN \A j \in 1..Len(v.entries) : v.entries[j].value.kind = "string"
            ELSE v.kind = "string"

\* The marker-prefixed placeholders of the template.
Placeholders ==
    {<<"y">> \o kTOP, <<"y">> \o kLEFT, <<"y">> \o kANGEL, <<"y">> \o kRIGHT,
     <<"y", "A">>, <<"y">> \o kSTAR,
     <<"g", "/">>, <<"g", "\\">>, <<"g", "=">>, <<"b", "|">>, <<"b", "_">>}

Palette == <<pink, lightBlue, purple, red, orange, lightGreen>>

\* The number of places of text where glyph stands wrapped in the escape
\* sequence of a palette colour and the reset sequence.
RECURSIVE LightCountFrom(_, _, _)
LightCountFrom(text, glyph, k) ==
    IF k > Len(Palette) THEN 0
    ELSE Count(text, format(Palette[k], glyph))
            + LightCountFrom(text, glyph, k + 1)

LightCount(text, glyph) == LightCountFrom(text, glyph, 1)

\* text without the places where glyph stands wrapped in a palette colour.
RECURSIVE UnlitFrom(_, _, _)
UnlitFrom(text, glyph, k) ==
    IF k > Len(Palette) THEN text
    ELSE UnlitFrom(SplitJoin(text, format(Palette[k], glyph), <<>>), glyph,
                   k + 1)

Unlit(text, glyph) == UnlitFrom(text, glyph, 1)

HasDigit(text) == \E i \in 1..Len(text) : IsDigit(text[i])

\* text with the colour of every palette escape sequence replaced by pink.
RECURSIVE NeutralFrom(_, _)
NeutralFrom(text, k) ==
    IF k > Len(Palette) THEN text
    ELSE NeutralFrom(SplitJoin(text, toAnsi(Palette[k]), toAnsi(pink)), k + 1)

Neutral(text) == NeutralFrom(text, 1)

\* The draws that all select the first colour.
ZeroDraws == [k \in 1..MaxDraws |-> 0]

(***************************************************************************)
(* C1.  For every configuration whose leaves are all strings, the text     *)
(* ctree returns holds no marker-prefixed placeholder of the template any  *)
(* more.  The code leaves some: a caller's star mapping replaces the       *)
(* default one as a whole, and the template has no token for BOTTOM or     *)
(* TREE_STAR.                                                              *)
(***************************************************************************)
C1_NoPlaceholderLeft ==
    (pc = "returned" /\ AllLeavesText(arg))
        => \A t \in Placeholders : ~Contains(result, t)

(***************************************************************************)
(* C2.  A configuration with a leaf that is not a string makes mergeOptions*)
(* throw its validation error before any substitution or colouring runs.   *)
(* The code lets a top-level null through.                                 *)
(***************************************************************************)
C2_NonTextLeafRejected ==
    (pc \notin {"call", "mergeOptions"} /\ ~AllLeavesText(arg))
        => /\ pc = "thrown"
           /\ error.name = "Error"
           /\ input = <<>>

(***************************************************************************)
(* C3.  A configuration whose leaves are all strings never makes ctree     *)
(* throw.  The code builds a regular expression from the balls glyph.      *)
(***************************************************************************)
C3_TextLeavesNeverThrow ==
    AllLeavesText(arg) => pc # "thrown"

(***************************************************************************)
(* C4.  With no options, the returned text holds one coloured light for    *)
(* each digit run of the template, each the default glyph "O" wrapped in   *)
(* a palette colour and the reset sequence.  As claimed, there are six.    *)
(***************************************************************************)
IsDefaultCall == arg = Obj(<<>>)

C4_SixLights ==
    (pc = "returned" /\ IsDefaultCall)
        => LightCount(result, Str(<<"O">>)) = 6

\* C4, amended: there are sixteen, the number of digit runs of the template.
C4_SixteenLights ==
    (pc = "returned" /\ IsDefaultCall)
        => /\ Cardinality(RunStarts(Template)) = 16
           /\ LightCount(result, Str(<<"O">>)) = 16
           /\ Count(lights, reset) = 16
           /\ ~HasDigit(Unlit(lights, Str(<<"O">>)))

C4_Witness ==
    /\ pc = "returned"
    /\ IsDefaultCall
    /\ LightCount(result, Str(<<"O">>)) = 16

BallsX == Get(arg, kBalls) = Str(<<"X">>)

C6_BallsX ==
    (pc = "returned" /\ BallsX)
        => /\ ~Contains(result, kBALL)
           /\ LightCount(result, Str(<<"X">>)) = Cardinality(RunStarts(input))
           /\ LightCount(result, Str(<<"X">>)) >= Cardinality(RunStarts(Template))
           /\ ~HasDigit(Unlit(lights, Str(<<"X">>)))
           /\ ~Contains(Unlit(lights, Str(<<"X">>)), <<"X">>)

C6_Witness ==
    /\ pc = "returned"
    /\ BallsX
    /\ LightCount(result, Str(<<"X">>)) = 16

(***************************************************************************)
(* C7.  With stars "+" and no replacement for the star-body token (star    *)
(* omitted, or supplied with the default glyphs and no key equal to the    *)
(* token; balls not supplied), ctree returns, and the token yANGEL is in   *)
(* the returned text whole.                                                *)
(***************************************************************************)
NoBodyGlyph ==
    /\ Get(arg, kStars) = Str(<<"+">>)
    /\ ~HasKey(arg, kBalls)
    /\ \/ ~HasKey(arg, kStar)
       \/ Get(arg, kStar) \in {starNoBody, explicitStar}

C8_StarsGlyphYellow ==
    (pc = "returned" /\ ~HasKey(arg, kStar) /\ ~HasKey(arg, kBalls))
        => /\ Count(result, format(yellow, Get(options, kStars)))
                >= Count(Template, <<"y">> \o kSTAR)
           /\ ~Contains(result, <<"y">>)

C10_DrawsOnlyChangeColors ==
    pc = "returned"
        => Neutral(result)
              = Neutral(applyColors(applyColorsToLights(input, options, ZeroDraws),
                                    options))

=============================================================================
